---------------------------- MODULE Spec2Model ----------------------------
(***************************************************************************)
(* A model of the evaluation orchestration of SecCodeBench:                *)
(*   - main()      (src/sec_code_bench/eval.py) : batching, task fan-out,  *)
(*                  statistics, persistence, shutdown;                     *)
(*   - run_once()  (src/sec_code_bench/eval.py) : the per-work-unit        *)
(*                  pipeline query -> extract -> workspace -> function     *)
(*                  test -> gate -> security test;                         *)
(*   - format_response() : the projection of a parsed response to          *)
(*                  (file name, content) pairs.                            *)
(* The event loop is cooperative: one action is the code a coroutine runs  *)
(* between two suspension points (awaits).                                 *)
(***************************************************************************)
EXTENDS Integers, Sequences, FiniteSets, TLC

\* ---------------------------------------------------------------- bounds
MaxTestcases == 2     \* len(testcases_list) ranges over 0..MaxTestcases
MaxBatchSize == 2     \* BATCH_SIZE ranges over 1..MaxBatchSize
MaxCycles    == 2     \* args.experiment_cycle ranges over 1..MaxCycles
MaxModels    == 2     \* len(args.eval_llm_list) ranges over 1..MaxModels
MaxScenarios == 2     \* len(testcase.scenarios) ranges over 1..MaxScenarios
MaxUnits     == 2     \* work units of one run (cycles x scenarios x models)

\* ------------------------------------------------------------ input data
RECURSIVE Sum(_)
Sum(q) == IF q = <<>> THEN 0 ELSE Head(q) + Sum(Tail(q))

\* The command line and configuration of one run: N testcases (numbered 1..N
\* in list order), batch size B, C experiment cycles, M evaluated models, and
\* S[t] scenarios of testcase t (numbered 1..S[t]).
Configs ==
    UNION { { c \in [N : {n}, B : 1..MaxBatchSize, C : 1..MaxCycles,
                     M : 1..MaxModels, S : [1..n -> 1..MaxScenarios]] :
                c.C * c.M * Sum(c.S) <= MaxUnits } : n \in 0..MaxTestcases }

\* a work unit: <<cycle, testcase, scenario, model>>
RunUnits(c) ==
    { u \in (0..(c.C - 1)) \X (1..c.N) \X (1..MaxScenarios) \X (1..c.M) :
        u[3] <= c.S[u[2]] }

\* a result-matrix address: <<testcase, cycle, scenario>>
RunCells(c) ==
    { k \in (1..c.N) \X (0..(c.C - 1)) \X (1..MaxScenarios) : k[3] <= c.S[k[1]] }

\* ---------------------------------------------------------------- values
NoResult == [type |-> "None", success |-> FALSE, pass |-> FALSE, msg |-> ""]

\* a plain string stored where a result is expected
Str(m) == [type |-> "str", success |-> FALSE, pass |-> FALSE, msg |-> m]

\* EvaluatorResult(success=..., error_message=...); pass is what if_pass() answers
EvaluatorResult(s, p, m) ==
    [type |-> "EvaluatorResult", success |-> s, pass |-> p, msg |-> m]

\* what the function tester can hand back as a value
FunctionValues ==
    { EvaluatorResult(s, p, "") : s \in BOOLEAN, p \in BOOLEAN }
        \cup { [type |-> "other", success |-> FALSE, pass |-> FALSE, msg |-> ""] }

\* what the security tester can hand back
SecurityValues == { EvaluatorResult(TRUE, TRUE, "") }

VARIABLES
    cfg,               \* the run's inputs: N testcases, batch size B, C cycles, M models
    mainPc,            \* position of main()
    i,                 \* loop variable of main's batch loop (start index, 0-based)
    exit_code,         \* -1 while main runs; else what the process exits with
    monitor,           \* SecurityMonitor: "new", "started", "ready", "not_ready", "stopped"
    llm_open,          \* the LLM manager's adapter instances are open
    prompts,           \* per testcase: "unloaded", "loading", "loaded"
    tasks,             \* the tasks list of the current batch, in creation order
    pc,                \* per work unit: position of run_once
    code_list,         \* per work unit: run_once's local code_list
    fun_result,        \* per work unit: run_once's local fun_result
    matrix,            \* Testcase result matrix: cell -> [fun, sec, error]
    code_paths,        \* cells whose code path was set (set_code_paths)
    dirs,              \* workspace directories that exist under work_dir
    pass_at_1_result,  \* main's running list of per-testcase pass@1 records
    saved,             \* testcases whose raw results were persisted
    score_done,        \* basic_calc_score ran
    extractor,         \* a call of format_response: its input text and outcome
    adapter            \* an OpenAI adapter: its stored extra_body and its queries

vars == << cfg, mainPc, i, exit_code, monitor, llm_open, prompts, tasks, pc,
           code_list, fun_result, matrix, code_paths, dirs,
           pass_at_1_result, saved, score_done, extractor, adapter >>

mainVars == << mainPc, i, exit_code, monitor, llm_open, prompts, tasks,
               pass_at_1_result, saved, score_done >>


\* ------------------------------------------------------ response extractor
\* A parsed <code> entry: path as its '/'-separated segments (<<>> when the
\* <path> leaf is missing or empty), content "" when missing or empty.

\* The text responses a query answers with: no parsable <result> document, or
\* the <code> entries of the document.
Responses ==
    { [parse |-> "error", items |-> <<>>],
      [parse |-> "ok", items |-> << [path |-> <<"src", "f1">>, content |-> "code"] >>],
      [parse |-> "ok", items |-> << [path |-> <<"zz">>, content |-> "code"] >>],
      [parse |-> "ok", items |-> << [path |-> <<"src", "f1">>, content |-> "code"],
                                     [path |-> <<"src", "">>, content |-> "code"] >>] }

\* path.rsplit("/", 1)[-1]
FileName(path) == path[Len(path)]

\* The loop of format_response over code_list; raised when an entry raises.
RECURSIVE CollectCode(_, _)
CollectCode(items, acc) ==
    IF items = <<>> THEN [raised |-> FALSE, list |-> acc]
    ELSE LET item == Head(items)
         IN  IF item.path = <<>> \/ item.content = ""
             THEN CollectCode(Tail(items), acc)
             ELSE IF FileName(item.path) = ""
                  THEN [raised |-> TRUE, list |-> <<>>]
                  ELSE CollectCode(Tail(items),
                                   Append(acc, <<FileName(item.path), item.content>>))

\* format_response: every exception ends in the empty list
format_response(response) ==
    IF response.parse = "error" \/ response.items = <<>>
    THEN <<>>
    ELSE LET r == CollectCode(response.items, <<>>)
         IN  IF r.raised THEN <<>> ELSE r.list

\* testcase.params: file name -> relative path (<<>> when the name is unknown)
params(file_name) == IF file_name = "f1" THEN <<"src", "f1">> ELSE <<>>

\* the file paths run_once writes for a code_list
RECURSIVE OverlayPaths(_)
OverlayPaths(cl) ==
    IF cl = <<>> THEN {}
    ELSE (IF params(Head(cl)[1]) # <<>> THEN { params(Head(cl)[1]) } ELSE {})
            \cup OverlayPaths(Tail(cl))

\* ---------------------------------------------------- the response text
\* A response text is a sequence of tokens with nothing but whitespace
\* between them: a code fence (three backticks, "xml" or not after them), the
\* tags of the envelope, plain text, and whole
\* <code> entries.
MaxTokens == 5        \* a response text has up to MaxTokens tokens

\* the <code> entries a text can hold, as xml_to_dict_ hands them on: well
\* formed (known and unknown file name), a path that ends in '/', no <path>
CodeEntry(token) ==
    CASE token = "<code>src/f1</code>" -> [path |-> <<"src", "f1">>, content |-> "code"]
      [] token = "<code>zz</code>"     -> [path |-> <<"zz">>, content |-> "code"]
      [] token = "<code>src/</code>"   -> [path |-> <<"src", "">>, content |-> "code"]
      [] token = "<code></code>"       -> [path |-> <<>>, content |-> "code"]

EntryTokens ==
    { "<code>src/f1</code>", "<code>zz</code>", "<code>src/</code>", "<code></code>" }

Tokens == { "fence", "<result>", "</result>", "text" } \cup EntryTokens

\* the lazy .*? of the fenced pattern from position b on: it ends at the first
\* </result> that a fence follows (0 when there is none)
RECURSIVE LazyFencedEnd(_, _)
LazyFencedEnd(text, b) ==
    IF b >= Len(text) THEN 0
    ELSE IF text[b] = "</result>" /\ text[b + 1] = "fence" THEN b
         ELSE LazyFencedEnd(text, b + 1)

\* re.search for fence, <result>, lazy .*?, </result>, fence: group 1 of the
\* leftmost match that starts at position a or later (<<>> when none)
RECURSIVE SearchFenced(_, _)
SearchFenced(text, a) ==
    IF a + 2 >= Len(text) THEN <<>>
    ELSE IF /\ text[a] = "fence"
            /\ text[a + 1] = "<result>"
            /\ LazyFencedEnd(text, a + 2) # 0
         THEN SubSeq(text, a + 1, LazyFencedEnd(text, a + 2))
         ELSE SearchFenced(text, a + 1)

\* the lazy .*? of the bare pattern from position b on: it ends at the first
\* </result> (0 when none)
RECURSIVE LazyEnd(_, _)
LazyEnd(text, b) ==
    IF b > Len(text) THEN 0
    ELSE IF text[b] = "</result>" THEN b ELSE LazyEnd(text, b + 1)

\* re.findall(r"<result>.*?</result>"): the non-overlapping matches from
\* position a on, left to right
RECURSIVE FindAll(_, _)
FindAll(text, a) ==
    IF a > Len(text) THEN <<>>
    ELSE IF text[a] = "<result>" /\ LazyEnd(text, a + 1) # 0
         THEN << SubSeq(text, a, LazyEnd(text, a + 1)) >>
                \o FindAll(text, LazyEnd(text, a + 1) + 1)
         ELSE FindAll(text, a + 1)

\* the first of the bare matches instead of the last
extract_xml_from_response_First(response) ==
    LET code_block_match == SearchFenced(response, 1)
        matched == FindAll(response, 1)
    IN  IF code_block_match # <<>> THEN code_block_match
        ELSE IF matched # <<>> THEN matched[1]
        ELSE response

extract_xml_from_response(response) ==
    LET code_block_match == SearchFenced(response, 1)
        matched == FindAll(response, 1)
    IN  IF code_block_match # <<>> THEN code_block_match
        ELSE IF matched # <<>> THEN matched[Len(matched)]
        ELSE response

\* open elements after the first k tokens of an XML string
RECURSIVE Depth(_, _)
Depth(xml, k) ==
    IF k = 0 THEN 0
    ELSE Depth(xml, k - 1) + (CASE xml[k] = "<result>" -> 1
                                [] xml[k] = "</result>" -> -1
                                [] OTHER -> 0)

\* ET.fromstring accepts one element with nothing but whitespace around it
WellFormed(xml) ==
    \/ Len(xml) = 1 /\ xml[1] \in EntryTokens
    \/ /\ Len(xml) >= 2
       /\ xml[1] = "<result>"
       /\ Depth(xml, Len(xml)) = 0
       /\ \A k \in 1..(Len(xml) - 1) : Depth(xml, k) >= 1

\* the <code> children of the root element, in document order
RECURSIVE CodeChildren(_, _)
CodeChildren(xml, k) ==
    IF k > Len(xml) THEN <<>>
    ELSE (IF xml[k] \in EntryTokens /\ Depth(xml, k - 1) = 1
          THEN << CodeEntry(xml[k]) >> ELSE <<>>) \o CodeChildren(xml, k + 1)

\* the root element has child elements (else xml_to_dict_ returns its text)
HasChildren(xml) ==
    \E k \in 2..(Len(xml) - 1) : xml[k] \in EntryTokens \cup { "<result>" }

\* xml_to_dict, then the look-ups result.get("result", {}).get("code", []):
\* what is raised on the way ("" when nothing is), and the code list
xml_to_dict(xml_string) ==
    IF ~WellFormed(xml_string)
    THEN [parse |-> "error", exc |-> "Exception", items |-> <<>>]
    ELSE IF xml_string[1] = "<result>" /\ ~HasChildren(xml_string)
         THEN [parse |-> "ok", exc |-> "ValueError", items |-> <<>>]
         ELSE [parse |-> "ok", exc |-> "",
               items |-> IF xml_string[1] = "<result>"
                         THEN CodeChildren(xml_string, 1) ELSE <<>>]

\* the try block of format_response: the exception it ends with ("" when it
\* returns) and the list it returns
TryFormat(response) ==
    LET result == xml_to_dict(extract_xml_from_response(response))
    IN  IF result.exc # "" THEN [exc |-> result.exc, list |-> <<>>]
        ELSE IF result.items = <<>> THEN [exc |-> "ValueError", list |-> <<>>]
        ELSE LET r == CollectCode(result.items, <<>>)
             IN  IF r.raised THEN [exc |-> "ValueError", list |-> <<>>]
                 ELSE [exc |-> "", list |-> r.list]

\* a handler that names ValueError only
Caught_ValueErrorOnly(exc) == exc = "ValueError"

\* except Exception: every exception the try block can end with
Caught(exc) == exc \in { "Exception", "ValueError" }

\* format_response on a response text: what the caller gets
FormatText(response) ==
    LET r == TryFormat(response)
    IN  IF r.exc = "" THEN [raised |-> FALSE, list |-> r.list]
        ELSE IF Caught(r.exc) THEN [raised |-> FALSE, list |-> <<>>]
        ELSE [raised |-> TRUE, list |-> <<>>]

ExtractorIdle ==
    [pc |-> "idle", text |-> <<>>, extracted_xml |-> <<>>,
     result |-> [raised |-> FALSE, list |-> <<>>]]

\* --------------------------------------------------------- result matrix
EmptyCell == [fun |-> NoResult, sec |-> NoResult, error |-> ""]

\* the cell run_once addresses for a unit: (testcase, cycle, scenario)
CellOf(u) == <<u[2], u[1], u[3]>>

\* work_dir / f"{testcase.prompt}_{scenario.value}_cycle-{cycle}"
CodeDir(u) == <<u[2], u[3], u[1]>>

set_error_result(m, cell, msg) == [m EXCEPT ![cell].error = msg]

set_fun_results(m, cell, r) == [m EXCEPT ![cell].fun = r]

set_sec_results(m, cell, r) == [m EXCEPT ![cell].sec = r]

\* ------------------------------------------------------------- batching
RECURSIVE Flatten(_)
Flatten(ss) == IF ss = <<>> THEN <<>> ELSE Head(ss) \o Flatten(Tail(ss))

\* range(0, len(testcases_list), BATCH_SIZE)
BatchStarts(n, b) == { k \in 0..(n - 1) : k % b = 0 }

\* a slice that runs one element too far: testcases_list[k : k + BATCH_SIZE + 1]
BatchAt_TooFar(n, b, k) ==
    [ j \in 1..((IF k + b + 1 < n THEN k + b + 1 ELSE n) - k) |-> k + j ]

\* testcases_list[k : k + BATCH_SIZE]; testcases are numbered 1..N in list order
BatchAt(n, b, k) ==
    [ j \in 1..((IF k + b < n THEN k + b ELSE n) - k) |-> k + j ]

batch_testcases == BatchAt(cfg.N, cfg.B, i)

BatchSet == { batch_testcases[j] : j \in 1..Len(batch_testcases) }

\* the comprehension with range(1, args.experiment_cycle): cycle 0 is left out
TaskList_SkipsCycleZero(batch, C, M) ==
    Flatten([ c \in 1..(C - 1) |->
      Flatten([ t \in 1..Len(batch) |->
        Flatten([ s \in 1..cfg.S[batch[t]] |->
          [ m \in 1..M |-> <<c, batch[t], s, m>> ] ]) ]) ])

\* the comprehension of main that creates the tasks of a batch
TaskList(batch, C, M) ==
    Flatten([ c \in 1..C |->
      Flatten([ t \in 1..Len(batch) |->
        Flatten([ s \in 1..cfg.S[batch[t]] |->
          [ m \in 1..M |-> <<c - 1, batch[t], s, m>> ] ]) ]) ])

TaskSet == { tasks[j] : j \in 1..Len(tasks) }


\* ---------------------------------------------------- the OpenAI adapter
\* Dicts are functions on their keys; None is the string "None".
MaxCalls == 2         \* an adapter answers up to MaxCalls queries

DEFAULT_TEMPERATURE == "0.6"

DEFAULT_TOP_P == "0.9"

TOP_LEVEL_PARAMS ==
    { "max_tokens", "max_completion_tokens", "presence_penalty",
      "frequency_penalty", "logit_bias", "logprobs", "top_logprobs", "n",
      "seed", "stop", "tools", "tool_choice", "response_format", "user",
      "parallel_tool_calls", "reasoning_effort", "temperature", "top_p" }

EmptyDict == [k \in {} |-> ""]

\* d.pop(key, None)
Pop(d, key) == [k \in DOMAIN d \ {key} |-> d[k]]

\* d[key] = value
Put(d, key, value) == [k \in DOMAIN d \cup {key} |-> IF k = key THEN value ELSE d[k]]

\* the keys a caller's parameters dict is drawn from, and their values
ParameterKeys == { "top_p", "max_tokens", "enable_thinking", "model" }

ParameterValues == { "None", "v" }

\* kwargs.get("parameters"): a dict, or (isdict false) None or no dict at all
ParameterDicts ==
    { [isdict |-> FALSE, items |-> EmptyDict] } \cup
    { [isdict |-> TRUE, items |-> d] :
        d \in UNION { [D -> ParameterValues] : D \in SUBSET ParameterKeys } }

\* self.kwargs.get("extra_body", {}) as the adapter was constructed
StoredExtraBodies == { EmptyDict, [k \in {"enable_search"} |-> "stored"] }

\* request_kwargs before the caller's parameters are looked at
BaseRequest ==
    [k \in { "model", "stream", "messages", "temperature", "top_p" } |->
        CASE k = "model" -> "self.model"
          [] k = "stream" -> "False"
          [] k = "messages" -> "messages"
          [] k = "temperature" -> DEFAULT_TEMPERATURE
          [] k = "top_p" -> DEFAULT_TOP_P]

\* one pass of the loop over parameters.items() that keeps a null entry of
\* an allow-listed key in the extension object
ProcessItem_NullToExtraBody(req, key, value) ==
    IF key \in TOP_LEVEL_PARAMS /\ value # "None"
    THEN [req EXCEPT !.kwargs = Put(req.kwargs, key, value)]
    ELSE [req EXCEPT !.extra_body = Put(req.extra_body, key, value)]

\* one pass of the loop over parameters.items()
ProcessItem(req, key, value) ==
    IF key \in TOP_LEVEL_PARAMS
    THEN IF value = "None"
         THEN [req EXCEPT !.kwargs = Pop(req.kwargs, key)]
         ELSE [req EXCEPT !.kwargs = Put(req.kwargs, key, value)]
    ELSE [req EXCEPT !.extra_body = Put(req.extra_body, key, value)]

\* the loop over parameters.items(), for the items not yet visited
RECURSIVE ProcessParameters(_, _, _)
ProcessParameters(req, items, todo) ==
    IF todo = {} THEN req
    ELSE LET key == CHOOSE k \in todo : TRUE
         IN  ProcessParameters(ProcessItem(req, key, items[key]), items, todo \ {key})

\* the request the adapter sends: its top-level arguments (extra_body apart,
\* which is passed only when it is not empty)
BuildRequest(stored, parameters) ==
    LET start == [kwargs |-> BaseRequest, extra_body |-> stored]
        req == IF parameters.isdict
               THEN ProcessParameters(start, parameters.items, DOMAIN parameters.items)
               ELSE start
    IN  [kwargs |-> req.kwargs, extra_body |-> req.extra_body,
         has_extra_body |-> req.extra_body # EmptyDict]

\* what the backend call ends with: the classes an exception is an instance of
BackendExceptions ==
    { {"Exception"} \cup cs : cs \in SUBSET { "APITimeoutError", "RateLimitError", "APIError" } }

\* the except clauses with the base class first
Handlers_BaseFirst ==
    << << "APIError", "LLMAPIError" >>,
       << "APITimeoutError", "LLMTimeoutError" >>,
       << "RateLimitError", "LLMRateLimitError" >>,
       << "Exception", "LLMBaseException" >> >>

\* the except clauses of _aquery_implementation, in their order
Handlers ==
    << << "APITimeoutError", "LLMTimeoutError" >>,
       << "RateLimitError", "LLMRateLimitError" >>,
       << "APIError", "LLMAPIError" >>,
       << "Exception", "LLMBaseException" >> >>

\* the first except clause an exception matches decides what is raised
RECURSIVE Surfaced(_, _)
Surfaced(handlers, classes) ==
    IF Head(handlers)[1] \in classes THEN Head(handlers)[2]
    ELSE Surfaced(Tail(handlers), classes)

NoRequest == [kwargs |-> EmptyDict, extra_body |-> EmptyDict, has_extra_body |-> FALSE]

NoParameters == [isdict |-> FALSE, items |-> EmptyDict]

AdapterIdle ==
    [pc |-> "idle", extra_body |-> EmptyDict, calls |-> 0,
     parameters |-> NoParameters, request |-> NoRequest,
     raised |-> {}, answer |-> ""]

\* ------------------------------------------------------------------ Init
Init ==
    /\ cfg \in Configs
    /\ mainPc = "start"
    /\ i = 0
    /\ exit_code = -1
    /\ monitor = "new"
    /\ llm_open = FALSE
    /\ prompts = [t \in 1..cfg.N |-> "unloaded"]
    /\ tasks = <<>>
    /\ pc = [u \in RunUnits(cfg) |-> "none"]
    /\ code_list = [u \in RunUnits(cfg) |-> <<>>]
    /\ fun_result = [u \in RunUnits(cfg) |-> NoResult]
    /\ matrix = [c \in RunCells(cfg) |-> EmptyCell]
    /\ code_paths = {}
    /\ dirs = {}
    /\ pass_at_1_result = <<>>
    /\ saved = {}
    /\ score_done = FALSE
    /\ extractor = ExtractorIdle
    /\ adapter = AdapterIdle

unitVars == << pc, code_list, fun_result, matrix, code_paths, dirs >>

\* Position of a work unit: "none" (no task yet), "created", then the await it
\* is suspended at ("query", "overlay", "function", "security"), then the
\* return statement it left through (by line), "end" (fell off the end) or
\* "raised" (an exception left run_once).
Returned ==
    { "ret269", "ret280", "ret329", "ret349", "ret358", "ret368", "ret379",
      "ret403", "end" }

\* ------------------------------------------------------------------ main
\* json.loads(args.parameters): a JSONDecodeError returns 1; then
\* basic_init_llm / basic_init_testcase
ParseParameters ==
    /\ mainPc = "start"
    /\ \E ok \in BOOLEAN :
         IF ok
         THEN /\ mainPc' = "monitor"
              /\ llm_open' = TRUE
              /\ exit_code' = exit_code
         ELSE /\ mainPc' = "done"
              /\ exit_code' = 1
              /\ llm_open' = llm_open
    /\ UNCHANGED << cfg, extractor, adapter, i, monitor, prompts, tasks, pass_at_1_result, saved,
                    score_done, unitVars >>

\* monitor = SecurityMonitor(); monitor.start()
MonitorStart ==
    /\ mainPc = "monitor"
    /\ monitor' = "started"
    /\ mainPc' = "wait_startup"
    /\ UNCHANGED << cfg, extractor, adapter, i, exit_code, llm_open, prompts, tasks, pass_at_1_result,
                    saved, score_done, unitVars >>

\* the head of the batch loop: the next batch's prompt loads are started, or
\* the loop is over
LoopHead(k) ==
    IF k \in BatchStarts(cfg.N, cfg.B)
    THEN /\ mainPc' = "load"
         /\ prompts' = [t \in 1..cfg.N |->
                          IF t \in { BatchAt(cfg.N, cfg.B, k)[j] :
                                       j \in 1..Len(BatchAt(cfg.N, cfg.B, k)) }
                          THEN "loading" ELSE prompts[t]]
    ELSE /\ mainPc' = "score"
         /\ prompts' = prompts

\* await monitor.wait_for_startup(timeout=60.0): its answer is not looked at
WaitForStartup ==
    /\ mainPc = "wait_startup"
    /\ \E ready \in BOOLEAN : monitor' = IF ready THEN "ready" ELSE "not_ready"
    /\ i' = 0
    /\ LoopHead(0)
    /\ UNCHANGED << cfg, extractor, adapter, exit_code, llm_open, tasks, pass_at_1_result, saved,
                    score_done, unitVars >>

\* one testcase.get_testcase_prompts(LOCALE) of the gather ends; an exception
\* leaves main (the gather is outside the try) and __main__ exits with 1
LoadPrompt(t) ==
    /\ mainPc = "load"
    /\ prompts[t] = "loading"
    /\ \E ok \in BOOLEAN :
         IF ok
         THEN /\ prompts' = [prompts EXCEPT ![t] = "loaded"]
              /\ UNCHANGED << mainPc, exit_code >>
         ELSE /\ prompts' = prompts
              /\ mainPc' = "done"
              /\ exit_code' = 1
    /\ UNCHANGED << cfg, extractor, adapter, i, monitor, llm_open, tasks, pass_at_1_result, saved,
                    score_done, unitVars >>

\* a prompt gather that returns with the first prompt loaded
PromptsReady_First == \E t \in BatchSet : prompts[t] = "loaded"

\* the prompt gather of the batch has returned
PromptsReady == \A t \in BatchSet : prompts[t] = "loaded"

\* tasks = [asyncio.create_task(run_once(...)) for ...]; await asyncio.gather(*tasks)
CreateTasks ==
    /\ mainPc = "load"
    /\ PromptsReady
    /\ tasks' = TaskList(batch_testcases, cfg.C, cfg.M)
    /\ pc' = [u \in RunUnits(cfg) |->
                IF \E j \in 1..Len(tasks') : tasks'[j] = u THEN "created" ELSE pc[u]]
    /\ mainPc' = "gather"
    /\ UNCHANGED << cfg, extractor, adapter, i, exit_code, monitor, llm_open, prompts, pass_at_1_result,
                    saved, score_done, code_list, fun_result, matrix, code_paths,
                    dirs >>

\* a gather that is not awaited
GatherDone_NotAwaited(ts) == TRUE

\* asyncio.gather(*tasks) returns once every task is done
GatherDone(ts) == \A u \in ts : pc[u] \in Returned

GatherReturn ==
    /\ mainPc = "gather"
    /\ GatherDone(TaskSet)
    /\ mainPc' = "stat"
    /\ UNCHANGED << cfg, extractor, adapter, i, exit_code, monitor, llm_open, prompts, tasks,
                    pass_at_1_result, saved, score_done, unitVars >>

\* asyncio.gather(*tasks) re-raises the first exception of a task
GatherRaise ==
    /\ mainPc = "gather"
    /\ \E u \in TaskSet : pc[u] = "raised"
    /\ mainPc' = "except"
    /\ UNCHANGED << cfg, extractor, adapter, i, exit_code, monitor, llm_open, prompts, tasks,
                    pass_at_1_result, saved, score_done, unitVars >>

\* pass_at_1_result.extend(do_statistic(stat_pass_at_k_score, eval_model, batch, k=1))
DoStatistic ==
    /\ mainPc = "stat"
    /\ \E ok \in BOOLEAN :
         IF ok
         THEN /\ pass_at_1_result' = pass_at_1_result \o batch_testcases
              /\ mainPc' = "save"
         ELSE /\ pass_at_1_result' = pass_at_1_result
              /\ mainPc' = "except"
    /\ UNCHANGED << cfg, extractor, adapter, i, exit_code, monitor, llm_open, prompts, tasks, saved,
                    score_done, unitVars >>

\* save_test_results(result_dir, batch_testcases), then the next loop iteration
SaveTestResults ==
    /\ mainPc = "save"
    /\ \E ok \in BOOLEAN :
         IF ok
         THEN /\ saved' = saved \cup BatchSet
              /\ i' = i + cfg.B
              /\ LoopHead(i + cfg.B)
         ELSE /\ saved' = saved
              /\ i' = i
              /\ mainPc' = "except"
              /\ prompts' = prompts
    /\ UNCHANGED << cfg, extractor, adapter, exit_code, monitor, llm_open, tasks, pass_at_1_result,
                    score_done, unitVars >>

\* a handler that leaves the loop instead of returning
ExceptReturn_Break ==
    /\ mainPc = "except"
    /\ mainPc' = "score"
    /\ UNCHANGED << cfg, extractor, adapter, i, exit_code, monitor, llm_open, prompts, tasks,
                    pass_at_1_result, saved, score_done, unitVars >>

\* except Exception as e: ...; return 1
ExceptReturn ==
    /\ mainPc = "except"
    /\ mainPc' = "done"
    /\ exit_code' = 1
    /\ UNCHANGED << cfg, extractor, adapter, i, monitor, llm_open, prompts, tasks, pass_at_1_result,
                    saved, score_done, unitVars >>

\* basic_calc_score(pass_at_1_result, result_dir, LOG)
CalcScore ==
    /\ mainPc = "score"
    /\ \E ok \in BOOLEAN :
         IF ok
         THEN /\ score_done' = TRUE
              /\ mainPc' = "shutdown"
              /\ exit_code' = exit_code
         ELSE /\ score_done' = score_done
              /\ mainPc' = "done"
              /\ exit_code' = 1
    /\ UNCHANGED << cfg, extractor, adapter, i, monitor, llm_open, prompts, tasks, pass_at_1_result,
                    saved, unitVars >>

\* main goes on without llm_manager.shutdown_all()
ShutdownAll_Skipped ==
    /\ mainPc = "shutdown"
    /\ llm_open' = llm_open
    /\ mainPc' = "stop_monitor"
    /\ UNCHANGED << cfg, extractor, adapter, i, exit_code, monitor, prompts, tasks, pass_at_1_result,
                    saved, score_done, unitVars >>

\* llm_manager.shutdown_all()
ShutdownAll ==
    /\ mainPc = "shutdown"
    /\ llm_open' = FALSE
    /\ mainPc' = "stop_monitor"
    /\ UNCHANGED << cfg, extractor, adapter, i, exit_code, monitor, prompts, tasks, pass_at_1_result,
                    saved, score_done, unitVars >>

\* monitor.stop(); return 0
MonitorStop ==
    /\ mainPc = "stop_monitor"
    /\ monitor' = "stopped"
    /\ mainPc' = "done"
    /\ exit_code' = 0
    /\ UNCHANGED << cfg, extractor, adapter, i, llm_open, prompts, tasks, pass_at_1_result, saved,
                    score_done, unitVars >>


\* ------------------------------------------------------------- run_once
\* run_once returns at `site`: the task is done and its locals are gone
Return(u, site) ==
    /\ pc' = [pc EXCEPT ![u] = site]
    /\ code_list' = [code_list EXCEPT ![u] = <<>>]
    /\ fun_result' = [fun_result EXCEPT ![u] = NoResult]

\* the task starts: prompt = testcase.get_scenario_prompt(scenario), and the
\* query is issued (await llm.aquery(prompt, parameters=parameters))
StartQuery(u) ==
    /\ mainPc = "gather"
    /\ pc[u] = "created"
    /\ pc' = [pc EXCEPT ![u] = "query"]
    /\ UNCHANGED << cfg, extractor, adapter, mainVars, code_list, fun_result, matrix, code_paths, dirs >>

\* the query raised, and the handler has no return
QueryRaises_NoReturn(u) ==
    /\ mainPc = "gather"
    /\ pc[u] = "query"
    /\ matrix' = set_error_result(matrix, CellOf(u), "LLM query failed")
    /\ pc' = [pc EXCEPT ![u] = "function"]
    /\ UNCHANGED << cfg, extractor, adapter, mainVars, code_list, fun_result, code_paths, dirs >>

\* the query raised
QueryRaises(u) ==
    /\ mainPc = "gather"
    /\ pc[u] = "query"
    /\ matrix' = set_error_result(matrix, CellOf(u), "LLM query failed")
    /\ Return(u, "ret269")
    /\ UNCHANGED << cfg, extractor, adapter, mainVars, code_paths, dirs >>

\* the query answered with something that is not a str
QueryReturnsNonString(u) ==
    /\ mainPc = "gather"
    /\ pc[u] = "query"
    /\ matrix' = set_error_result(matrix, CellOf(u), "LLM returned non-string response")
    /\ Return(u, "ret280")
    /\ UNCHANGED << cfg, extractor, adapter, mainVars, code_paths, dirs >>

\* shutil.copytree(code_template_dir, code_dir, dirs_exist_ok=True)
CopytreeOutcomes_ExistOk(d) == {"ok", "error"}

\* shutil.copytree(code_template_dir, code_dir): "ok", "exists" (the
\* destination is there already: FileExistsError) or "error" (any other failure)
CopytreeOutcomes(d) == IF d \in dirs THEN {"exists"} ELSE {"ok", "error"}

\* The query answered with text: format_response, the code_list check
\* (format_response catches every exception and never answers None, so the
\* returns of lines 292 and 298 are not taken), set_code_paths and copytree
\* run up to the next await.
QueryReturns(u) ==
    /\ mainPc = "gather"
    /\ pc[u] = "query"
    /\ \E response \in Responses :
       LET cl == format_response(response)
       IN  \/ \* testcase.set_code_paths raises: nothing in run_once catches it
              /\ pc' = [pc EXCEPT ![u] = "raised"]
              /\ UNCHANGED << code_list, fun_result, matrix, code_paths, dirs >>
           \/ /\ code_paths' = code_paths \cup { CellOf(u) }
              /\ \E out \in CopytreeOutcomes(CodeDir(u)) :
                   IF out = "ok"
                   THEN /\ dirs' = dirs \cup { CodeDir(u) }
                        /\ pc' = [pc EXCEPT ![u] = "overlay"]
                        /\ code_list' = [code_list EXCEPT ![u] = cl]
                        /\ UNCHANGED << fun_result, matrix >>
                   ELSE /\ matrix' = set_fun_results(matrix, CellOf(u),
                              Str(IF out = "exists"
                                  THEN "Error setting up test work dir: FileExistsError"
                                  ELSE "Error setting up test work dir"))
                        /\ \E made \in BOOLEAN :
                             dirs' = IF made THEN dirs \cup { CodeDir(u) } ELSE dirs
                        /\ Return(u, "ret329")
    /\ UNCHANGED << cfg, extractor, adapter, mainVars >>

\* the overlay loop: every extracted file whose name testcase.params knows is
\* written below code_dir (the content of a workspace is read by the testers
\* only and is not kept here); a failing write ends the unit; then the
\* function tester is called
Overlay(u) ==
    /\ mainPc = "gather"
    /\ pc[u] = "overlay"
    /\ LET paths == OverlayPaths(code_list[u])
       IN  \E ok \in (IF paths = {} THEN {TRUE} ELSE BOOLEAN) :
             IF ok
             THEN /\ pc' = [pc EXCEPT ![u] = "function"]
                  /\ UNCHANGED << code_list, fun_result, matrix >>
             ELSE /\ matrix' = set_fun_results(matrix, CellOf(u),
                                   Str("Error setting up test work dir"))
                  /\ Return(u, "ret329")
    /\ UNCHANGED << cfg, extractor, adapter, mainVars, code_paths, dirs >>

\* FunctionTester.function_eval_with_retry raised SyntaxCheckError
FunctionRaisesSyntaxCheckError(u) ==
    /\ mainPc = "gather"
    /\ pc[u] = "function"
    /\ matrix' = set_error_result(matrix, CellOf(u), "Syntax error")
    /\ Return(u, "ret349")
    /\ UNCHANGED << cfg, extractor, adapter, mainVars, code_paths, dirs >>

\* FunctionTester.function_eval_with_retry raised another exception
FunctionRaises(u) ==
    /\ mainPc = "gather"
    /\ pc[u] = "function"
    /\ matrix' = set_error_result(matrix, CellOf(u),
            "Functional check failed; security check was not performed")
    /\ Return(u, "ret358")
    /\ UNCHANGED << cfg, extractor, adapter, mainVars, code_paths, dirs >>

\* a gate that lets a result through when either flag is set
PassesGate_Either(r) == ~ (~ r.success /\ ~ r.pass)

\* the gate of run_once: not (not fun_result.success or not fun_result.if_pass())
PassesGate(r) == ~ (~ r.success \/ ~ r.pass)

\* the synthesized result with another message
FunctionTestFailed_Reworded == EvaluatorResult(FALSE, FALSE, "Function test failed.")

\* EvaluatorResult(success=False, error_message="Function test failed")
FunctionTestFailed == EvaluatorResult(FALSE, FALSE, "Function test failed")

\* FunctionTester.function_eval_with_retry returned a value: the type check,
\* set_fun_results, the gate, and the call of the security tester
FunctionReturns(u) ==
    /\ mainPc = "gather"
    /\ pc[u] = "function"
    /\ \E r \in FunctionValues :
         IF r.type # "EvaluatorResult"
         THEN /\ matrix' = set_error_result(matrix, CellOf(u),
                    "Functional test result is not an EvaluatorResult object")
              /\ Return(u, "ret368")
         ELSE IF PassesGate(r)
              THEN /\ matrix' = set_fun_results(matrix, CellOf(u), r)
                   /\ pc' = [pc EXCEPT ![u] = "security"]
                   /\ fun_result' = [fun_result EXCEPT ![u] = r]
                   /\ code_list' = code_list
              ELSE /\ matrix' = set_sec_results(
                                   set_fun_results(matrix, CellOf(u), r),
                                   CellOf(u), FunctionTestFailed)
                   /\ Return(u, "ret379")
    /\ UNCHANGED << cfg, extractor, adapter, mainVars, code_paths, dirs >>

\* SecurityTester.security_eval returned
SecurityReturns(u) ==
    /\ mainPc = "gather"
    /\ pc[u] = "security"
    /\ \E r \in SecurityValues : matrix' = set_sec_results(matrix, CellOf(u), r)
    /\ Return(u, "end")
    /\ UNCHANGED << cfg, extractor, adapter, mainVars, code_paths, dirs >>

\* SecurityTester.security_eval raised
SecurityRaises(u) ==
    /\ mainPc = "gather"
    /\ pc[u] = "security"
    /\ matrix' = set_sec_results(matrix, CellOf(u),
            EvaluatorResult(FALSE, FALSE, "Error running security test"))
    /\ Return(u, "ret403")
    /\ UNCHANGED << cfg, extractor, adapter, mainVars, code_paths, dirs >>

\* ------------------------------------------------------------------ Next
Next ==
    \/ ParseParameters
    \/ MonitorStart
    \/ WaitForStartup
    \/ \E t \in 1..cfg.N : LoadPrompt(t)
    \/ CreateTasks
    \/ GatherReturn
    \/ GatherRaise
    \/ DoStatistic
    \/ SaveTestResults
    \/ ExceptReturn
    \/ CalcScore
    \/ ShutdownAll
    \/ MonitorStop
    \/ \E u \in RunUnits(cfg) : StartQuery(u)
    \/ \E u \in RunUnits(cfg) : QueryRaises(u)
    \/ \E u \in RunUnits(cfg) : QueryReturnsNonString(u)
    \/ \E u \in RunUnits(cfg) : QueryReturns(u)
    \/ \E u \in RunUnits(cfg) : Overlay(u)
    \/ \E u \in RunUnits(cfg) : FunctionRaisesSyntaxCheckError(u)
    \/ \E u \in RunUnits(cfg) : FunctionRaises(u)
    \/ \E u \in RunUnits(cfg) : FunctionReturns(u)
    \/ \E u \in RunUnits(cfg) : SecurityReturns(u)
    \/ \E u \in RunUnits(cfg) : SecurityRaises(u)

Spec == Init /\ [][Next]_vars


\* ------------------------------------------------- the batch loop alone
\* The batch loop of main on longer testcase lists: every unit of a batch
\* succeeds at once, so one step is one iteration of the loop.
MaxListLen == 8       \* len(testcases_list) ranges over 0..MaxListLen
MaxSlice   == 4       \* BATCH_SIZE ranges over 1..MaxSlice

BatchConfigs ==
    { [N |-> n, B |-> b, C |-> 1, M |-> 1, S |-> [t \in 1..n |-> 1]] :
        n \in 0..MaxListLen, b \in 1..MaxSlice }

InitBatches ==
    /\ cfg \in BatchConfigs
    /\ mainPc = "loop"
    /\ i = 0
    /\ exit_code = -1
    /\ monitor = "ready"
    /\ llm_open = TRUE
    /\ prompts = [t \in 1..cfg.N |-> "unloaded"]
    /\ tasks = <<>>
    /\ pc = [u \in RunUnits(cfg) |-> "none"]
    /\ code_list = [u \in RunUnits(cfg) |-> <<>>]
    /\ fun_result = [u \in RunUnits(cfg) |-> NoResult]
    /\ matrix = [c \in RunCells(cfg) |-> EmptyCell]
    /\ code_paths = {}
    /\ dirs = {}
    /\ pass_at_1_result = <<>>
    /\ saved = {}
    /\ score_done = FALSE
    /\ extractor = ExtractorIdle
    /\ adapter = AdapterIdle

\* one iteration: the batch is sliced, its results are appended and persisted
BatchIteration ==
    /\ mainPc = "loop"
    /\ i \in BatchStarts(cfg.N, cfg.B)
    /\ pass_at_1_result' = pass_at_1_result \o batch_testcases
    /\ saved' = saved \cup BatchSet
    /\ i' = i + cfg.B
    /\ UNCHANGED << cfg, extractor, adapter, mainPc, exit_code, monitor, llm_open, prompts, tasks,
                    score_done, unitVars >>

SpecBatches == InitBatches /\ [][BatchIteration]_vars


\* --------------------------------------------------- the extractor alone
\* format_response applied to every response text of up to MaxTokens tokens;
\* no run is in progress.
NoRun ==
    /\ cfg = [N |-> 0, B |-> 1, C |-> 1, M |-> 1, S |-> <<>>]
    /\ mainPc = "idle"
    /\ i = 0
    /\ exit_code = -1
    /\ monitor = "new"
    /\ llm_open = FALSE
    /\ prompts = <<>>
    /\ tasks = <<>>
    /\ pc = [u \in {} |-> "none"]
    /\ code_list = [u \in {} |-> <<>>]
    /\ fun_result = [u \in {} |-> NoResult]
    /\ matrix = [c \in {} |-> EmptyCell]
    /\ code_paths = {}
    /\ dirs = {}
    /\ pass_at_1_result = <<>>
    /\ saved = {}
    /\ score_done = FALSE

ResponseTexts == UNION { [1..n -> Tokens] : n \in 0..MaxTokens }

InitExtract ==
    /\ NoRun
    /\ adapter = AdapterIdle
    /\ \E text \in ResponseTexts :
          extractor = [ExtractorIdle EXCEPT !.pc = "called", !.text = text]

\* code_list = await format_response(response)
FormatResponse ==
    /\ extractor.pc = "called"
    /\ extractor' = [extractor EXCEPT
                       !.pc = "done",
                       !.extracted_xml = extract_xml_from_response(extractor.text),
                       !.result = FormatText(extractor.text)]
    /\ UNCHANGED << cfg, adapter, mainVars, unitVars >>

SpecExtract == InitExtract /\ [][FormatResponse]_vars


\* ----------------------------------------------------- the adapter alone
\* An adapter constructed with some stored extra_body answers queries.
InitAdapter ==
    /\ NoRun
    /\ extractor = ExtractorIdle
    /\ \E stored \in StoredExtraBodies :
          adapter = [AdapterIdle EXCEPT !.pc = "ready", !.extra_body = stored]

\* extra_body = self.kwargs.get("extra_body", {}) with no copy: the loop
\* writes into the stored dict itself
StoredAfter_Aliased(stored, extra_body) == extra_body

\* extra_body = self.kwargs.get("extra_body", {}).copy(): the loop writes
\* into the copy, and the stored dict is after the call what it was before
StoredAfter(stored, extra_body) == stored

\* _aquery_implementation returns its content, or "" for None
QueryAnswers(parameters, content) ==
    /\ adapter.pc = "ready"
    /\ adapter.calls < MaxCalls
    /\ adapter' = [adapter EXCEPT
                     !.calls = @ + 1,
                     !.parameters = parameters,
                     !.extra_body =
                         StoredAfter(adapter.extra_body,
                             BuildRequest(adapter.extra_body, parameters).extra_body),
                     !.request = BuildRequest(adapter.extra_body, parameters),
                     !.raised = {},
                     !.answer = IF content = "None" THEN "" ELSE content]
    /\ UNCHANGED << cfg, extractor, mainVars, unitVars >>

\* the backend call raises: the matching except clause raises in its place
QueryFails(parameters, classes) ==
    /\ adapter.pc = "ready"
    /\ adapter.calls < MaxCalls
    /\ adapter' = [adapter EXCEPT
                     !.calls = @ + 1,
                     !.parameters = parameters,
                     !.extra_body =
                         StoredAfter(adapter.extra_body,
                             BuildRequest(adapter.extra_body, parameters).extra_body),
                     !.request = BuildRequest(adapter.extra_body, parameters),
                     !.raised = classes,
                     !.answer = Surfaced(Handlers, classes)]
    /\ UNCHANGED << cfg, extractor, mainVars, unitVars >>

NextAdapter ==
    \/ \E parameters \in ParameterDicts, content \in { "None", "content" } :
          QueryAnswers(parameters, content)
    \/ \E parameters \in ParameterDicts, classes \in BackendExceptions :
          QueryFails(parameters, classes)

SpecAdapter == InitAdapter /\ [][NextAdapter]_vars


\* ------------------------------------------------------ the fan-out alone
\* The task creation of main for every configuration within the bounds: the
\* prompts of a batch load, and every unit of the batch runs to its end.
FanoutConfigs ==
    UNION { [N : {n}, B : 1..MaxBatchSize, C : 1..MaxCycles,
             M : 1..MaxModels, S : [1..n -> 1..MaxScenarios]] : n \in 0..MaxTestcases }

InitFanout ==
    /\ cfg \in FanoutConfigs
    /\ mainPc = "loop"
    /\ i = 0
    /\ exit_code = -1
    /\ monitor = "ready"
    /\ llm_open = TRUE
    /\ prompts = [t \in 1..cfg.N |-> "unloaded"]
    /\ tasks = <<>>
    /\ pc = [u \in RunUnits(cfg) |-> "none"]
    /\ code_list = [u \in RunUnits(cfg) |-> <<>>]
    /\ fun_result = [u \in RunUnits(cfg) |-> NoResult]
    /\ matrix = [c \in RunCells(cfg) |-> EmptyCell]
    /\ code_paths = {}
    /\ dirs = {}
    /\ pass_at_1_result = <<>>
    /\ saved = {}
    /\ score_done = FALSE
    /\ extractor = ExtractorIdle
    /\ adapter = AdapterIdle

\* the prompts of the batch load and the tasks of the batch are created
FanOut ==
    /\ mainPc = "loop"
    /\ i \in BatchStarts(cfg.N, cfg.B)
    /\ prompts' = [t \in 1..cfg.N |-> IF t \in BatchSet THEN "loaded" ELSE prompts[t]]
    /\ tasks' = TaskList(batch_testcases, cfg.C, cfg.M)
    /\ pc' = [u \in RunUnits(cfg) |->
                IF \E j \in 1..Len(tasks') : tasks'[j] = u THEN "created" ELSE pc[u]]
    /\ mainPc' = "gather"
    /\ UNCHANGED << cfg, extractor, adapter, i, exit_code, monitor, llm_open,
                    pass_at_1_result, saved, score_done, code_list, fun_result,
                    matrix, code_paths, dirs >>

\* the gather of the batch returns and the results are appended and persisted
FanIn ==
    /\ mainPc = "gather"
    /\ pc' = [u \in RunUnits(cfg) |-> IF u \in TaskSet THEN "end" ELSE pc[u]]
    /\ pass_at_1_result' = pass_at_1_result \o batch_testcases
    /\ saved' = saved \cup BatchSet
    /\ i' = i + cfg.B
    /\ mainPc' = "loop"
    /\ UNCHANGED << cfg, extractor, adapter, exit_code, monitor, llm_open,
                    prompts, tasks, score_done, code_list, fun_result, matrix,
                    code_paths, dirs >>

NextFanout == FanOut \/ FanIn

SpecFanout == InitFanout /\ [][NextFanout]_vars

\* ================================================================ claims
InFlight == { "query", "overlay", "function", "security" }

\* C1: the security tester is invoked for a unit only after the function
\* tester returned an EvaluatorResult with success true and if_pass() true: a
\* unit is at the security tester only with such a result in hand.
C1_SecurityOnlyAfterPass ==
    \A u \in RunUnits(cfg) :
        pc[u] = "security" =>
            /\ fun_result[u].type = "EvaluatorResult"
            /\ fun_result[u].success
            /\ fun_result[u].pass

C1_Witness == \E u \in RunUnits(cfg) : pc[u] = "security"

\* C2: the step in which the function tester's result of a unit reports
\* failure records, in the unit's cell, a security result that is a failure
\* with the message "Function test failed" exactly, and ends the unit.
C2_FunctionFailureRecorded ==
    [][ \A u \in RunUnits(cfg) :
          ( /\ pc[u] = "function"
            /\ pc'[u] \in {"security", "ret379"}
            /\ ~ (matrix'[CellOf(u)].fun.success /\ matrix'[CellOf(u)].fun.pass) )
          => /\ pc'[u] = "ret379"
             /\ matrix'[CellOf(u)].sec.type = "EvaluatorResult"
             /\ matrix'[CellOf(u)].sec.success = FALSE
             /\ matrix'[CellOf(u)].sec.msg = "Function test failed" ]_vars

C2_Witness ==
    \E u \in RunUnits(cfg) :
        /\ pc[u] = "ret379"
        /\ matrix[CellOf(u)].sec.msg = "Function test failed"
        /\ matrix[CellOf(u)].fun.type = "EvaluatorResult"

\* what a unit that left run_once at pc[u] wrote into its cell
OutcomeRecorded(u) ==
    LET c == matrix[CellOf(u)]
    IN  CASE pc[u] = "ret269" -> c.error = "LLM query failed"
          [] pc[u] = "ret280" -> c.error = "LLM returned non-string response"
          [] pc[u] = "ret329" -> c.fun.type = "str"
          [] pc[u] = "ret349" -> c.error = "Syntax error"
          [] pc[u] = "ret358" ->
                c.error = "Functional check failed; security check was not performed"
          [] pc[u] = "ret368" ->
                c.error = "Functional test result is not an EvaluatorResult object"
          [] pc[u] = "ret379" ->
                /\ c.fun.type = "EvaluatorResult"
                /\ ~ (c.fun.success /\ c.fun.pass)
                /\ c.sec = FunctionTestFailed
          [] pc[u] = "ret403" ->
                /\ c.fun.type = "EvaluatorResult" /\ c.fun.success /\ c.fun.pass
                /\ c.sec.msg = "Error running security test"
          [] pc[u] = "end" ->
                /\ c.fun.type = "EvaluatorResult" /\ c.fun.success /\ c.fun.pass
                /\ c.sec \in SecurityValues
          [] OTHER -> TRUE

\* C3: each result-matrix cell is written by exactly one work unit, so that
\* once all units of a batch have completed, the outcome every unit recorded
\* is still in its cell (none was overwritten by another unit).
C3_OneWriterPerCell ==
    mainPc = "stat" =>
        \A u \in TaskSet :
            /\ \A v \in TaskSet : v # u => CellOf(v) # CellOf(u)
            /\ OutcomeRecorded(u)

\* C4: no two work units use the same workspace directory, so that the
\* materialization of one unit never fails because another unit has created
\* its directory (no directory exists before the run).
C4_WorkspaceExclusive ==
    \A u \in RunUnits(cfg) :
        pc[u] = "ret329" =>
            matrix[CellOf(u)].fun.msg # "Error setting up test work dir: FileExistsError"

\* C5: a unit whose extraction yielded the empty list ends there: it never
\* gets to the workspace overlay, the function tester or the security tester.
C5_EmptyExtractionEndsUnit ==
    \A u \in RunUnits(cfg) :
        pc[u] \in {"overlay", "function", "security"} => code_list[u] # <<>>

\* testcases t1 and t2 are sliced into the same batch
SameBatch(t1, t2) == (t1 - 1) \div cfg.B = (t2 - 1) \div cfg.B

\* C6: a unit has issued its query only when the prompts of every testcase
\* of its batch are loaded (none is still loading).
C6_PromptsBeforeQuery ==
    \A u \in RunUnits(cfg) :
        pc[u] \notin {"none", "created"} =>
            \A t \in 1..cfg.N : SameBatch(t, u[2]) => prompts[t] = "loaded"

C6_Witness ==
    \E u \in RunUnits(cfg) :
        /\ pc[u] = "query"
        /\ \E t \in 1..cfg.N : t # u[2] /\ SameBatch(t, u[2])

\* C7: when a prompt load of a batch has started, every unit of every
\* earlier batch has returned, and the earlier batches' statistics are
\* appended and their results persisted.
C7_BatchesSequential ==
    \A t \in 1..cfg.N :
        prompts[t] # "unloaded" =>
            \A t2 \in 1..cfg.N :
                (t2 - 1) \div cfg.B < (t - 1) \div cfg.B =>
                    /\ \A u \in RunUnits(cfg) : u[2] = t2 => pc[u] \in Returned
                    /\ t2 \in saved
                    /\ \E j \in 1..Len(pass_at_1_result) : pass_at_1_result[j] = t2

C7_Witness ==
    \E t \in 1..cfg.N : prompts[t] = "loading" /\ (t - 1) \div cfg.B >= 1

\* C8: N testcases and batch size B give ceil(N/B) batches; the batches
\* handled so far are the testcases 1..min(i, N) in list order; every
\* testcase is in exactly one batch; every batch but the last has B testcases.
C8_Batching ==
    LET n == cfg.N
        b == cfg.B
        starts == BatchStarts(n, b)
        elems(k) == { BatchAt(n, b, k)[j] : j \in 1..Len(BatchAt(n, b, k)) }
    IN  /\ Cardinality(starts) = (n + b - 1) \div b
        /\ pass_at_1_result = [j \in 1..(IF i < n THEN i ELSE n) |-> j]
        /\ i >= n => i = b * Cardinality(starts)
        /\ \A t \in 1..n : Cardinality({ k \in starts : t \in elems(k) }) = 1
        /\ \A k \in starts :
              IF k + b < n
              THEN Len(BatchAt(n, b, k)) = b
              ELSE Len(BatchAt(n, b, k)) >= 1 /\ Len(BatchAt(n, b, k)) <= b

C8_Witness == i >= cfg.N /\ cfg.N > cfg.B /\ cfg.N % cfg.B # 0 /\ cfg.B > 1

\* a stage of unit u fails in this step
StageFails(u) ==
    \/ pc[u] = "query" /\ pc'[u] \in {"ret269", "ret280"}
    \/ pc[u] = "query" /\ pc'[u] = "overlay" /\ code_list'[u] = <<>>
    \/ pc[u] \in {"query", "overlay"} /\ pc'[u] = "ret329"
    \/ pc[u] = "function" /\ pc'[u] \in {"ret349", "ret358", "ret368", "ret379"}
    \/ pc[u] = "security" /\ pc'[u] = "ret403"

\* a cell holds a failure
FailureRecorded(c) ==
    \/ c.error # ""
    \/ c.fun.type = "str"
    \/ c.fun.type = "EvaluatorResult" /\ ~ (c.fun.success /\ c.fun.pass)
    \/ c.sec.type = "EvaluatorResult" /\ ~ c.sec.success

\* C9: a failing stage of a unit is recorded as the unit's result and ends
\* the unit, and stops neither a sibling unit nor main.
C9_UnitErrorIsLocal ==
    [][ \A u \in RunUnits(cfg) :
          StageFails(u) =>
              /\ pc'[u] \in Returned
              /\ FailureRecorded(matrix'[CellOf(u)])
              /\ \A v \in RunUnits(cfg) : v # u => pc'[v] = pc[v]
              /\ mainPc' = mainPc ]_vars

\* an exception leaves the gather, the statistics or the persistence of a batch
BatchException ==
    \/ mainPc = "gather" /\ mainPc' # "gather" /\ \E u \in TaskSet : pc[u] = "raised"
    \/ mainPc = "stat" /\ pass_at_1_result' = pass_at_1_result /\ mainPc' # "stat"
    \/ mainPc = "save" /\ ~ (BatchSet \subseteq saved') /\ mainPc' # "save"

\* C10: an exception that leaves a batch's gather, statistics or persistence
\* is handled by returning 1: no later batch loads its prompts, the
\* aggregate score is not computed, and nothing runs after the return.
C10_BatchExceptionAborts ==
    [][ /\ BatchException => mainPc' = "except"
        /\ mainPc = "except" =>
              /\ mainPc' = "done"
              /\ exit_code' = 1
              /\ prompts' = prompts
              /\ score_done' = FALSE
              /\ pc' = pc
        /\ mainPc # "done" ]_vars

C10_Witness ==
    /\ mainPc = "done"
    /\ exit_code = 1
    /\ \E t \in 1..cfg.N : prompts[t] = "loaded" /\ t \in BatchSet
    /\ \E t \in 1..cfg.N : prompts[t] = "unloaded"
    /\ \E u \in RunUnits(cfg) : pc[u] \in Returned \cup {"raised"}


FencedSpans(text) ==
    { sp \in (1..Len(text)) \X (1..Len(text)) :
        /\ sp[1] + 2 <= sp[2]
        /\ sp[2] + 1 <= Len(text)
        /\ text[sp[1]] = "fence"
        /\ text[sp[1] + 1] = "<result>"
        /\ text[sp[2]] = "</result>"
        /\ text[sp[2] + 1] = "fence" }

\* <result> ... </result> with no </result> in between: text[a..b]
ResultSpans(text) ==
    { sp \in (1..Len(text)) \X (1..Len(text)) :
        /\ sp[1] < sp[2]
        /\ text[sp[1]] = "<result>"
        /\ text[sp[2]] = "</result>"
        /\ \A k \in (sp[1] + 1)..(sp[2] - 1) : text[k] # "</result>" }

\* a well-formed envelope: <result>, any number of <code> entries, </result>
IsBlock(xml) ==
    /\ Len(xml) >= 2
    /\ xml[1] = "<result>"
    /\ xml[Len(xml)] = "</result>"
    /\ \A k \in 2..(Len(xml) - 1) : xml[k] \in EntryTokens

\* C12: the text handed to the XML parser is a fenced <result>...</result>
\* envelope if the response has one; otherwise the last <result>...</result>
\* occurrence; otherwise the whole response. A response made of two unfenced
\* envelopes yields what its second envelope yields alone.
C12_CandidateSelection ==
    extractor.pc = "done" =>
        LET text == extractor.text
            xml  == extractor.extracted_xml
        IN  /\ IF FencedSpans(text) # {}
               THEN \E sp \in FencedSpans(text) : xml = SubSeq(text, sp[1] + 1, sp[2])
               ELSE IF ResultSpans(text) # {}
               THEN \E sp \in ResultSpans(text) :
                       /\ xml = SubSeq(text, sp[1], sp[2])
                       /\ \A later \in ResultSpans(text) : later[1] < sp[2]
               ELSE xml = text
            /\ \A n \in 2..(Len(text) - 2) :
                  IsBlock(SubSeq(text, 1, n)) /\ IsBlock(SubSeq(text, n + 1, Len(text)))
                     => /\ xml = SubSeq(text, n + 1, Len(text))
                        /\ extractor.result.list
                             = FormatText(SubSeq(text, n + 1, Len(text))).list

C12_Witness ==
    /\ extractor.pc = "done"
    /\ extractor.text = << "<result>", "</result>", "<result>", "<code>src/f1</code>", "</result>" >>
    /\ extractor.result.list = << << "f1", "code" >> >>

\* a <code> entry with a path, a content and a non-empty last path segment
WellFormedEntry(item) ==
    item.path # <<>> /\ item.content # "" /\ FileName(item.path) # ""

\* the (file name, content) pairs of the well-formed entries, in order
RECURSIVE PairsOf(_)
PairsOf(items) ==
    IF items = <<>> THEN <<>>
    ELSE (IF WellFormedEntry(Head(items))
          THEN << << FileName(Head(items).path), Head(items).content >> >>
          ELSE <<>>) \o PairsOf(Tail(items))

\* C13: a malformed <code> entry (no path, no content, or a path whose last
\* '/'-separated segment is empty) fails only itself: the well-formed entries
\* of the document are returned, in document order.
C13_MalformedEntryFailsAlone ==
    extractor.pc = "done" /\ IsBlock(extractor.extracted_xml) =>
        extractor.result.list = PairsOf(CodeChildren(extractor.extracted_xml, 1))


\* -------------------------------------------------- claims on the adapter
\* C14: an exception of a query is surfaced as exactly one of four kinds, the
\* most specific first: a timeout as LLMTimeoutError (also when its class is a
\* rate-limit or API error as well), else a rate-limit error as
\* LLMRateLimitError, else an API error as LLMAPIError, else LLMBaseException.
C14_MostSpecificFirst ==
    adapter.raised # {} =>
        adapter.answer =
            IF "APITimeoutError" \in adapter.raised THEN "LLMTimeoutError"
            ELSE IF "RateLimitError" \in adapter.raised THEN "LLMRateLimitError"
            ELSE IF "APIError" \in adapter.raised THEN "LLMAPIError"
            ELSE "LLMBaseException"

C14_Witness ==
    /\ adapter.raised = { "Exception", "APIError", "RateLimitError", "APITimeoutError" }
    /\ adapter.answer = "LLMTimeoutError"

\* C15: of the caller's parameters, an allow-listed key with a null value is
\* in no part of the request (its default is gone too), an allow-listed key
\* with another value is a top-level argument with that value, and any other
\* key is in the extension object only, with its value.
C15_ParameterPlacement ==
    adapter.calls > 0 /\ adapter.parameters.isdict =>
        \A key \in DOMAIN adapter.parameters.items :
            LET value == adapter.parameters.items[key]
                top   == adapter.request.kwargs
                extra == adapter.request.extra_body
            IN  IF key \in TOP_LEVEL_PARAMS
                THEN /\ key \notin DOMAIN extra
                     /\ IF value = "None" THEN key \notin DOMAIN top
                        ELSE key \in DOMAIN top /\ top[key] = value
                ELSE /\ key \in DOMAIN extra
                     /\ extra[key] = value
                     /\ adapter.request.has_extra_body
                     /\ key \in DOMAIN top => top[key] = BaseRequest[key]

C15_Witness ==
    /\ adapter.calls > 0
    /\ adapter.parameters.isdict
    /\ DOMAIN adapter.parameters.items = { "top_p", "max_tokens", "enable_thinking" }
    /\ adapter.parameters.items["top_p"] = "None"
    /\ adapter.parameters.items["max_tokens"] = "v"
    /\ DOMAIN adapter.request.kwargs
          = { "model", "stream", "messages", "temperature", "max_tokens" }
    /\ DOMAIN adapter.request.extra_body = { "enable_search", "enable_thinking" }


\* ------------------------------------------- further claims on the run
\* C16: no unit is at the security tester unless the monitor's startup wait
\* ended with the monitor ready.
C16_MonitorReadyBeforeSecurity ==
    \A u \in RunUnits(cfg) : pc[u] = "security" => monitor = "ready"

AllTestcases == 1..cfg.N

\* C17: the aggregate score, shutdown_all, the monitor's stop and the return
\* of 0 come in this order, and none of them before the results of every
\* batch are persisted.
C17_OrderlyCompletion ==
    /\ score_done => saved = AllTestcases /\ Len(pass_at_1_result) = cfg.N
    /\ mainPc \in { "stop_monitor" } => score_done /\ ~llm_open
    /\ monitor = "stopped" => score_done /\ ~llm_open
    /\ exit_code = 0 => monitor = "stopped" /\ mainPc = "done"
    /\ mainPc \in { "shutdown", "stop_monitor" } => monitor # "stopped" /\ exit_code = -1
    /\ mainPc = "shutdown" => llm_open

C17_Witness ==
    /\ exit_code = 0
    /\ cfg.N = 2
    /\ cfg.B = 1
    /\ saved = AllTestcases
    /\ \E u \in RunUnits(cfg) : pc[u] = "end"

QueryErrors == { "LLM query failed", "LLM returned non-string response" }

\* C19: a unit whose query raises, or answers with something that is no
\* text, records the error in its cell and returns in the same step (at line
\* 269 or 280): no code path is set, no workspace is made, no tester result
\* is written, and the unit takes no further step.
C19_QueryFailureEndsUnit ==
    [][ \A u \in RunUnits(cfg) :
          /\ pc[u] = "query" /\ pc'[u] \in { "ret269", "ret280" } =>
                /\ matrix'[CellOf(u)].error \in QueryErrors
                /\ matrix'[CellOf(u)].fun = matrix[CellOf(u)].fun
                /\ matrix'[CellOf(u)].sec = matrix[CellOf(u)].sec
                /\ code_paths' = code_paths
                /\ dirs' = dirs
          /\ /\ pc[u] = "query"
             /\ pc'[u] # "query"
             /\ matrix'[CellOf(u)].error # matrix[CellOf(u)].error
             => pc'[u] \in { "ret269", "ret280" }
          /\ pc[u] \in { "ret269", "ret280" } => pc'[u] = pc[u] ]_vars

C19_Witness ==
    \E u \in RunUnits(cfg) :
        /\ pc[u] = "ret280"
        /\ matrix[CellOf(u)] = [EmptyCell EXCEPT !.error = "LLM returned non-string response"]
        /\ CodeDir(u) \notin dirs
        /\ mainPc = "stat"

SetupErrors ==
    { Str("Error setting up test work dir"),
      Str("Error setting up test work dir: FileExistsError") }

C18_ModelOutermost ==
    \A j, k \in 1..Len(tasks) : j < k => tasks[j][4] <= tasks[k][4]


\* the cross-product of a batch: every cycle, testcase of the batch, scenario
\* of the testcase and model
CrossProduct ==
    { u \in RunUnits(cfg) : u[2] \in BatchSet }

\* the scenario counts of the testcases of the batch, in batch order
BatchScenarios == [ j \in 1..Len(batch_testcases) |-> cfg.S[batch_testcases[j]] ]

\* C21: while main awaits the gather of a batch, the tasks are the
\* cross-product of the batch, each unit once; when the gather is entered
\* every one of them is created and none has run; their number is
\* cycles x (sum of the scenario counts of the batch's testcases) x models.
C21_FullCrossProductOnce ==
    mainPc = "gather" =>
        /\ TaskSet = CrossProduct
        /\ \A j, k \in 1..Len(tasks) : tasks[j] = tasks[k] => j = k
        /\ Len(tasks) = cfg.C * Sum(BatchScenarios) * cfg.M
        /\ \A u \in CrossProduct : pc[u] = "created"
        /\ \A u \in RunUnits(cfg) \ CrossProduct : pc[u] \in { "none", "end" }

C21_Witness ==
    /\ mainPc = "gather"
    /\ cfg.C = 2
    /\ cfg.M = 2
    /\ BatchScenarios = << 1, 2 >>
    /\ Len(tasks) = 12
    /\ \A u \in TaskSet : pc[u] = "created"


\* C22: every step in which main returns after the monitor was started (the
\* return 1 of the batch loop's handler, line 497, or the return 0 of line
\* 508) ends with the monitor stopped and the adapters shut down.
C22_CleanupOnEveryReturn ==
    [][ (mainPc = "except" \/ mainPc = "stop_monitor") /\ mainPc' = "done"
          => (monitor' = "stopped" /\ llm_open' = FALSE) ]_vars


\* the keys an adapter's extension-object defaults can hold at construction
ConstructionKeys == UNION { DOMAIN stored : stored \in StoredExtraBodies }

\* C23: a query leaves the adapter's stored extension-object defaults as they
\* are, and the request of a query owes nothing to earlier queries: its
\* extension object holds the stored defaults and this call's keys only, and
\* a top-level argument this call does not supply has its built-in value.
C23_QueryLeavesConfiguration ==
    [][ /\ adapter'.extra_body = adapter.extra_body
        /\ adapter'.calls # adapter.calls =>
              LET supplied == IF adapter'.parameters.isdict
                              THEN DOMAIN adapter'.parameters.items ELSE {}
                  request  == adapter'.request
              IN  /\ DOMAIN request.extra_body \subseteq ConstructionKeys \cup supplied
                  /\ \A key \in DOMAIN adapter.extra_body \ supplied :
                        /\ key \in DOMAIN request.extra_body
                        /\ request.extra_body[key] = adapter.extra_body[key]
                  /\ \A key \in DOMAIN BaseRequest \ supplied :
                        /\ key \in DOMAIN request.kwargs
                        /\ request.kwargs[key] = BaseRequest[key] ]_vars

C23_Witness ==
    /\ adapter.calls = 2
    /\ adapter.extra_body = [k \in {"enable_search"} |-> "stored"]
    /\ ~adapter.parameters.isdict
    /\ adapter.request.kwargs = BaseRequest
    /\ adapter.request.extra_body = adapter.extra_body

=============================================================================
